---- MODULE Spec2Model ----
(***************************************************************************)
(* Model of crewai_poagent: first the purchase request queue               *)
(* (src/tools/purchase_queue_tool.py): a JSON file holding the lists       *)
(* pending_requests and completed_requests plus a metadata block, and the  *)
(* four operations of PurchaseQueueTool._run, each of which performs a     *)
(* full load-modify-persist cycle on the file.                             *)
(*                                                                         *)
(* Three specifications of the queue share the definitions:                *)
(*   Spec      - one invocation at a time, no crash;                       *)
(*   SpecCrash - one invocation at a time, a mutating invocation may crash *)
(*               at any point of its cycle;                                *)
(*   SpecConc  - several invocations, one operation each, whose load and   *)
(*               persist steps interleave.                                 *)
(*                                                                         *)
(* The order store (src/PO_Crew/tools/po_record_tool.py) is a collection   *)
(* of documents keyed by _id, written by PORecordTool._run:                *)
(*   SpecStore - record_extracted_orders, record_single_po and             *)
(*               get_order_status, one invocation at a time; the loop of   *)
(*               _save_orders_to_mongodb takes one step per order.         *)
(*                                                                         *)
(* The extraction pipeline (src/PO_Crew/tools/document_parser_tool.py)     *)
(* turns the text read from a document into order data:                    *)
(*   SpecParser - DocumentParserTool._run on texts, credentials and        *)
(*                answers of the text-generation service drawn from small  *)
(*                sets; texts are sequences of characters.                 *)
(*                                                                         *)
(* The document generator (src/PO_Crew/tools/document_generator_tool.py)   *)
(* validates a purchase order and renders it with LaTeX:                   *)
(*   SpecGen    - DocumentGeneratorTool._run on suppliers, item lists,     *)
(*                actions and PO numbers drawn from small sets; the        *)
(*                random PO numbers and the outcome of the file system     *)
(*                and of pdflatex are chosen by the environment.           *)
(***************************************************************************)
EXTENDS Integers, Sequences, FiniteSets, TLC

\* ---------------------------------------------------------------- bounds
\* The clock counts ticks of datetime.now(); it stops at MaxClock.
MaxClock == 2
\* Ticks of the clock in one wall-clock second (strftime %S resolution).
TicksPerSecond == 2
\* Enqueues accepted over one behaviour.
MaxRequests == 3
\* Distinct non-empty validation payloads.
NumPayloads == 1
\* Invocations of SpecConc; each runs one operation.
NumProcs == 3
\* Invocations killed over one behaviour of SpecCrash.
MaxCrashes == 1
\* Records the file holds in SpecCrash.
MaxCrashRequests == 2
\* Distinct order_id values of the orders submitted to the store.
NumOrderIds == 2
\* Distinct order_items payloads.
NumItemSets == 2
\* Orders in one batch of record_extracted_orders.
MaxBatch == 2
\* ObjectIds generated over one behaviour.
MaxOids == 2
\* Documents the collection holds.
MaxStored == 2
\* Length of the generated raw texts.
MaxTextLen == 3
\* raw_text[:500]
PreviewLen == 500
\* strftime('%Y%m%d') changes once in a day
SecondsPerDay == 86400
\* Items of one document generation request.
MaxItems == 2
\* Values random.randint(1000, 9999) can return.
NumRandoms == 2

VARIABLES
    file,         \* content of queue_file on disk
    clock,        \* datetime.now(), in ticks
    result,       \* what the last finished invocation returned
    adds,         \* request_id -> number of add_to_queue calls that returned it
    completions,  \* request_id -> number of mark_completed calls that succeeded
    crash,        \* the last crashed invocation: state before, state intended
    pc,           \* SpecConc: position of each invocation
    local,        \* SpecConc: queue_data held in memory by each invocation
    overlapped,   \* SpecConc: some load happened while another cycle was open
    crashes,      \* SpecCrash: invocations killed so far
    collection,   \* SpecStore: the PO_records collection, _id -> document
    oids,         \* SpecStore: ObjectIds generated so far
    save,         \* SpecStore: the running _save_orders_to_mongodb call
    storeResult,  \* SpecStore: what the last finished PORecordTool call returned
    submitted,    \* SpecStore: the payload a caller submits twice
    downstream,   \* SpecDownstream: _ids a downstream process has changed
    parserInput,  \* SpecParser: the document and the services of the calls
    parsed,       \* SpecParser: what the last DocumentParserTool call returned
    genInput,     \* SpecGen: the arguments of the DocumentGeneratorTool call
    generated     \* SpecGen: what the call returned, wrote and ran

queueVars == <<file, clock, result, adds, completions, crash, pc, local,
               overlapped, crashes>>
storeVars == <<collection, oids, save, storeResult, submitted, downstream>>
parserVars == <<parserInput, parsed>>
genVars == <<genInput, generated>>
vars == <<queueVars, storeVars, parserVars, genVars>>

\* ----------------------------------------------------------- input values
Procs == 1..NumProcs
Ticks == 0..MaxClock
\* request_data: 0 stands for None / {} (falsy), 1..NumPayloads for payloads.
NoData == 0
RequestData == 0..NumPayloads

\* strftime("%Y%m%d_%H%M%S") keeps the second and drops the sub-second part.
GenerateRequestId(now) == <<"PQ", now \div TicksPerSecond>>

\* request_id arguments: <<>> stands for None / "" (falsy).
NoId == <<>>
RequestIds == {GenerateRequestId(t) : t \in Ticks}
RequestIdArgs == RequestIds \cup {NoId}

\* ------------------------------------------------------------ file content
InitialData(now) ==
    [kind |-> "json",
     pending_requests |-> <<>>,
     completed_requests |-> <<>>,
     metadata |-> [created_at |-> now, last_updated |-> now]]

\* A file cut short by an interrupted json.dump: not parseable.
Truncated ==
    [kind |-> "truncated",
     pending_requests |-> <<>>,
     completed_requests |-> <<>>,
     metadata |-> [created_at |-> 0, last_updated |-> 0]]

\* A file cut short inside the metadata block, after both lists went out:
\* the records are on disk but the file does not parse.
CutShort(data) == [data EXCEPT !.kind = "truncated"]

\* No file at queue_file.
Missing ==
    [kind |-> "missing",
     pending_requests |-> <<>>,
     completed_requests |-> <<>>,
     metadata |-> [created_at |-> 0, last_updated |-> 0]]

\* _load_queue taking the recovery branch on every call
LoadQueueAlwaysFresh(f, now) == InitialData(now)

\* _load_queue: returns the parsed file; a missing or unparseable file is
\* first replaced by a fresh empty queue.  Yields the file as it is on disk
\* after the call, which is also the value returned.
LoadQueue(f, now) == IF f.kind = "json" THEN f ELSE InitialData(now)

\* _save_queue: stamps last_updated and rewrites the whole file.
SaveQueue(data, now) ==
    [data EXCEPT !.kind = "json", !.metadata.last_updated = now]

\* ------------------------------------------------------------ list helpers
\* list.pop(i) mistaken for truncation at i (del s[i:])
PopFrom(s, i) == SubSeq(s, 1, i - 1)

\* list.pop(i)
PopAt(s, i) == [j \in 1..(Len(s) - 1) |-> IF j < i THEN s[j] ELSE s[j + 1]]

\* 0 when no element satisfies the test of the for loop, else the first index
FirstIndex(s, id) ==
    IF \E i \in 1..Len(s) : s[i].request_id = id
    THEN CHOOSE i \in 1..Len(s) :
            /\ s[i].request_id = id
            /\ \A j \in 1..(i - 1) : s[j].request_id # id
    ELSE 0

IdsOf(s) == [i \in 1..Len(s) |-> s[i].request_id]
Range(s) == {s[i] : i \in 1..Len(s)}

RECURSIVE SumOver(_, _)
SumOver(f, S) ==
    IF S = {} THEN 0
    ELSE LET x == CHOOSE y \in S : TRUE IN f[x] + SumOver(f, S \ {x})

\* ------------------------------------------------------------- the records
\* queue_item created with an empty completed_at slot
QueueItemWithCompletedAt(request_id, now, request_data) ==
    [request_id |-> request_id,
     timestamp |-> now,
     status |-> "pending",
     validation_data |-> request_data,
     created_by |-> "purchase_validation_agent",
     completed_at |-> 0]

\* queue_item of _add_to_queue
QueueItem(request_id, now, request_data) ==
    [request_id |-> request_id,
     timestamp |-> now,
     status |-> "pending",
     validation_data |-> request_data,
     created_by |-> "purchase_validation_agent"]

\* _mark_completed without the assignment to "status"
CompletedKeepsStatus(request, now) ==
    [f \in (DOMAIN request) \cup {"completed_at", "processed_by"} |->
        CASE f = "completed_at" -> now
          [] f = "processed_by" -> "purchase_order_agent"
          [] OTHER -> request[f]]

\* The three assignments of _mark_completed to the request dict.
Completed(request, now) ==
    [f \in (DOMAIN request) \cup {"completed_at", "processed_by"} |->
        CASE f = "status" -> "completed"
          [] f = "completed_at" -> now
          [] f = "processed_by" -> "purchase_order_agent"
          [] OTHER -> request[f]]

\* _add_to_queue with insert(0, queue_item) in place of append
WithAddedAtFront(data, now, request_data) ==
    [data EXCEPT !.pending_requests =
        <<QueueItem(GenerateRequestId(now), now, request_data)>> \o @]

\* queue_data after the body of _add_to_queue, before _save_queue
WithAdded(data, now, request_data) ==
    [data EXCEPT !.pending_requests =
        Append(@, QueueItem(GenerateRequestId(now), now, request_data))]

\* _mark_completed without pending_requests.pop(i)
WithCompletedNoPop(data, i, now) ==
    LET request == Completed(data.pending_requests[i], now)
        pending == [data.pending_requests EXCEPT ![i] = request]
    IN [data EXCEPT
            !.completed_requests = Append(@, request),
            !.pending_requests = pending]

\* queue_data after the body of the matching branch of _mark_completed,
\* before _save_queue; i is the index found by the loop
WithCompleted(data, i, now) ==
    LET request == Completed(data.pending_requests[i], now)
        \* the dict is changed in place, so the pending list sees it too
        pending == [data.pending_requests EXCEPT ![i] = request]
    IN [data EXCEPT
            !.completed_requests = Append(@, request),
            !.pending_requests = PopAt(pending, i)]

\* What the not-found exit of _mark_completed leaves on disk: it returns
\* without calling _save_queue, so the file is as _load_queue left it.
SavesOnNotFound(loaded, now) == SaveQueue(loaded, now)
AfterNotFound(loaded, now) == loaded

RecordsIn(f) == Len(f.pending_requests) + Len(f.completed_requests)

\* ----------------------------------------------------------------- results
NoResult ==
    [op |-> "none", status |-> "none", request_id |-> NoId,
     pending_count |-> 0, completed_count |-> 0, listing |-> <<>>,
     last_updated |-> 0]

Result(op, status, id, pcount, ccount, listing, updated) ==
    [op |-> op, status |-> status, request_id |-> id,
     pending_count |-> pcount, completed_count |-> ccount,
     listing |-> listing, last_updated |-> updated]

NoCrash == [happened |-> FALSE, op |-> "none",
            before |-> InitialData(0), after |-> InitialData(0)]

NoLocal == [op |-> "none", request_id |-> NoId, data |-> InitialData(0)]

TotalAdds == SumOver(adds, RequestIds)
TotalCompletions == SumOver(completions, RequestIds)

\* -------------------------------------------------- order store: values
\* Python's None
None == <<>>
OrderIds == {<<"PO", n>> : n \in 1..NumOrderIds}
\* str(ObjectId()): a key no earlier call has produced
ObjectId(n) == <<"oid", n>>
OrderItems == 1..NumItemSets
\* An element of extracted_orders that is not a dict (a string, a number).
NotADict == [not_a_dict |-> TRUE]
\* The dicts an extraction hands over: with an order_id, with order_id null,
\* and without the order_id key.  order_items stands for every payload field
\* that _prepare_order_document copies with order_data.get(field, default).
OrderDicts ==
    {[order_items |-> it] : it \in OrderItems}
        \cup {[order_id |-> x, order_items |-> it] :
                    x \in OrderIds \cup {None}, it \in OrderItems}
OrderInputs == OrderDicts \cup {NotADict}
IsDict(order) == "not_a_dict" \notin DOMAIN order
OrderIdArgs == OrderIds \cup {None}
Actions == {"record_extracted_orders", "record_single_po"}

\* dict.get(key, default): the default is used only when the key is absent,
\* a key that is present with the value None yields None.
Get(d, key, default) == IF key \in DOMAIN d THEN d[key] ELSE default

\* extraction_metadata built by record_extracted_orders; record_single_po
\* passes none.
MetadataOf(action) ==
    IF action = "record_extracted_orders"
    THEN [extraction_status |-> "completed"] ELSE None

\* -------------------------------------------------- order store: documents
DocumentFields == {"_id", "order_id", "order_items", "status", "created_at", "updated_at"}

\* _prepare_order_document; oid numbers the ObjectId() of this call
PrepareOrderDocument(order_data, extraction_metadata, now, oid) ==
    [f \in DocumentFields \cup
            (IF extraction_metadata # None THEN {"extraction_metadata"} ELSE {}) |->
        CASE f = "_id" -> Get(order_data, "order_id", ObjectId(oid))
          [] f = "order_id" -> Get(order_data, "order_id", None)
          [] f = "order_items" -> Get(order_data, "order_items", 0)
          [] f = "status" -> "pending"
          [] f = "created_at" -> now
          [] f = "updated_at" -> now
          [] OTHER -> extraction_metadata]

EmptyCollection == [k \in {} |-> None]

\* an insert that leaves a document already stored under the _id as it is
InsertIfAbsent(coll, document) ==
    [k \in (DOMAIN coll) \cup {document["_id"]} |->
        IF k \in DOMAIN coll THEN coll[k] ELSE document]

\* the fields of old overwritten and extended by those of new
Merged(old, new) ==
    [f \in (DOMAIN old) \cup (DOMAIN new) |-> IF f \in DOMAIN new THEN new[f] ELSE old[f]]
\* update_one({"_id": ...}, {"$set": document}, upsert=True) in the place of
\* replace_one: the fields of the stored document that the new one lacks stay
UpdateOneSet(coll, document) ==
    [k \in (DOMAIN coll) \cup {document["_id"]} |->
        IF k # document["_id"] THEN coll[k]
        ELSE IF k \in DOMAIN coll THEN Merged(coll[k], document) ELSE document]
\* collection.replace_one({"_id": document["_id"]}, document, upsert=True)
ReplaceOne(coll, document) ==
    [k \in (DOMAIN coll) \cup {document["_id"]} |->
        IF k = document["_id"] THEN document ELSE coll[k]]
\* result.upserted_id is set when no document had that _id
Upserted(coll, document) == document["_id"] \notin DOMAIN coll
\* result.upserted_id: the _id of the document the upsert inserted, else None
UpsertedId(coll, document) ==
    IF Upserted(coll, document) THEN document["_id"] ELSE None
\* bool(x) of an _id: None is false, an order id or an ObjectId is true
Truthy(x) == x # None

\* the documents collection.find_one({"order_id": order_id}) may return
Matching(coll, order_id) == {coll[k] : k \in {j \in DOMAIN coll : coll[j]["order_id"] = order_id}}

\* The stored records without their timestamps.
Stored(coll) ==
    {[f \in (DOMAIN coll[k]) \ {"created_at", "updated_at"} |-> coll[k][f]] : k \in DOMAIN coll}

\* locals of _save_orders_to_mongodb: n orders of the size submitted have
\* been through the loop, order and document are those of the last pass
NoSave ==
    [pc |-> "idle", action |-> "none", size |-> 0, n |-> 0,
     order |-> None, document |-> None,
     saved_orders |-> <<>>, errors |-> <<>>, again |-> FALSE, replay |-> FALSE]

\* what PORecordTool._run returns; raised tells whether an exception left it
NoStoreResult ==
    [op |-> "none", raised |-> FALSE, status |-> "none", message |-> "",
     order_id |-> None, saved_orders |-> <<>>, total_saved |-> 0,
     errors |-> <<>>, order |-> None]
StoreResult(op, status, message, order_id, saved_orders, errors, order) ==
    [op |-> op, raised |-> FALSE, status |-> status, message |-> message,
     order_id |-> order_id, saved_orders |-> saved_orders,
     total_saved |-> Len(saved_orders), errors |-> errors, order |-> order]

\* the orders of a payload that is submitted twice, and what the collection
\* held after the first submission
NotSubmitted == [batch |-> <<>>, first |-> {}]

\* ------------------------------------------ extraction pipeline: texts
\* A text is a sequence of characters.
UpperCase == <<"A", "B", "C", "D", "E", "F", "G", "H", "I", "J", "K", "L", "M", "N", "O", "P", "Q", "R", "S", "T", "U", "V", "W", "X", "Y", "Z">>
LowerCase == <<"a", "b", "c", "d", "e", "f", "g", "h", "i", "j", "k", "l", "m", "n", "o", "p", "q", "r", "s", "t", "u", "v", "w", "x", "y", "z">>
Digits == {"0", "1", "2", "3", "4", "5", "6", "7", "8", "9"}
\* re.IGNORECASE
Lower(c) ==
    IF \E i \in 1..Len(UpperCase) : UpperCase[i] = c
    THEN LowerCase[CHOOSE i \in 1..Len(UpperCase) : UpperCase[i] = c]
    ELSE c
\* [\s#:\-]
IsSeparator(c) == c \in {" ", "\t", "\n", "#", ":", "-"}
\* [A-Z0-9\-] under re.IGNORECASE
IsIdChar(c) == Lower(c) \in Range(LowerCase) \cup Digits \cup {"-"}
\* (?:PO|P\.O\.|Purchase Order) under re.IGNORECASE, in the order of the
\* alternation
Markers ==
    <<<<"p", "o">>,
      <<"p", ".", "o", ".">>,
      <<"p", "u", "r", "c", "h", "a", "s", "e", " ", "o", "r", "d", "e", "r">>>>

\* the texts the fallback is run on: all short texts over TextChars and some
\* longer ones
TextChars == {"P", "o", ".", " ", "-", "7", "x"}
LongTexts ==
    {<<"P", ".", "O", ".", " ", "#", "1", "2", "3", "-", "A">>,
     <<"P", "u", "r", "c", "h", "a", "s", "e", " ", "O", "r", "d", "e", "r", ":", " ", "7", "7">>,
     <<"r", "e", "p", "o", "r", "t", " ", "5">>,
     <<"i", "n", "v", "o", "i", "c", "e", " ", "1", "2">>,
     <<"p", "o", "#", ":", " ", "a", "b", "c">>}
ExampleText ==
    <<"P", "O", " ", "N", "u", "m", "b", "e", "r", ":", " ", "P", "O", "-", "9", "9", "-", "X", " ", "r", "a", "w", " ", "g", "a", "r", "b", "l", "e", "d", " ", "t", "e", "x", "t", ".", ".", ".">>
\* a text as long as the preview and one a character longer
PageTexts == {[i \in 1..n |-> "x"] : n \in {PreviewLen, PreviewLen + 1}}
Texts ==
    UNION {[1..n -> TextChars] : n \in 0..MaxTextLen}
        \cup LongTexts \cup {ExampleText} \cup PageTexts

\* the marker m stands at position i of t
MarkerAt(t, i, m) ==
    /\ i + Len(m) - 1 <= Len(t)
    /\ \A j \in 1..Len(m) : Lower(t[i + j - 1]) = m[j]
\* the end of the longest run of separators / of identifier characters that
\* starts at position j (the first position after the run)
SeparatorsEnd(t, j) ==
    CHOOSE k \in j..(Len(t) + 1) :
        /\ \A q \in j..(k - 1) : IsSeparator(t[q])
        /\ k = Len(t) + 1 \/ ~IsSeparator(t[k])
IdEnd(t, j) ==
    CHOOSE k \in j..(Len(t) + 1) :
        /\ \A q \in j..(k - 1) : IsIdChar(t[q])
        /\ k = Len(t) + 1 \/ ~IsIdChar(t[k])
\* Where group 1 can start after a marker that ends before position j:
\* [\s#:\-]* takes as many separators as it can and gives back from the
\* right until an identifier character follows.
GroupStarts(t, j) ==
    {g \in j..SeparatorsEnd(t, j) : g <= Len(t) /\ IsIdChar(t[g])}
Max(S) == CHOOSE x \in S : \A y \in S : y <= x
Min(S) == CHOOSE x \in S : \A y \in S : x <= y
\* the alternatives that match at position i, by their place in Markers
MatchesAt(t, i) ==
    {a \in 1..Len(Markers) :
        MarkerAt(t, i, Markers[a]) /\ GroupStarts(t, i + Len(Markers[a])) # {}}
\* re.search: the positions where the pattern matches; the leftmost wins
MatchPositions(t) == {i \in 1..Len(t) : MatchesAt(t, i) # {}}
NoMatch == [matched |-> FALSE, group |-> <<>>]
\* re.search(pattern, raw_text, re.IGNORECASE) and its group(1)
OrderIdMatch(raw_text) ==
    IF MatchPositions(raw_text) = {} THEN NoMatch
    ELSE LET i == Min(MatchPositions(raw_text))
             a == Min(MatchesAt(raw_text, i))
             g == Max(GroupStarts(raw_text, i + Len(Markers[a])))
         IN [matched |-> TRUE,
             group |-> SubSeq(raw_text, g, IdEnd(raw_text, g) - 1)]
\* f"EXTRACTED_{datetime.now().strftime('%Y%m%d_%H%M%S')}"
ExtractedId(now) == <<"E", "X", "T", "R", "A", "C", "T", "E", "D", "_">> \o <<ToString(now \div TicksPerSecond)>>

\* raw_text[:500] + "..." if len(raw_text) > 500 else raw_text
\* (mutant: the text is not cut)
PreviewWholeText(raw_text) == raw_text
Preview(raw_text) ==
    IF Len(raw_text) > PreviewLen
    THEN SubSeq(raw_text, 1, PreviewLen) \o <<".", ".", ".">>
    ELSE raw_text

\* ---------------------------------- extraction pipeline: structuring step
\* _create_fallback_structure
CreateFallbackStructure(raw_text, error_msg, now) ==
    [order_id |-> IF OrderIdMatch(raw_text).matched
                  THEN OrderIdMatch(raw_text).group ELSE ExtractedId(now),
     customer_details |->
        [company_name |-> None, contact_person |-> None, email |-> None,
         phone |-> None, billing_address |-> None, shipping_address |-> None],
     order_items |-> <<>>,
     order_totals |->
        [subtotal |-> None, tax_amount |-> None, shipping_cost |-> None,
         total_amount |-> None, currency |-> <<"U", "S", "D">>],
     delivery_requirements |->
        [delivery_date |-> None, shipping_method |-> None,
         special_instructions |-> None],
     payment_terms |-> [terms |-> None, due_date |-> None],
     extraction_notes |->
        [raw_text_preview |-> Preview(raw_text),
         extraction_error |-> error_msg,
         fallback_used |-> TRUE]]

\* A Python str, as opposed to a dict
PyStr(text) == [str |-> text]
\* What the text-generation call does: it raises with a message, or the
\* chunks of its answer add up to a text (JSON of the schema, other text,
\* nothing).
ApiErrors == {"no credentials", "503 UNAVAILABLE"}
Responses == {"{\"order_id\": \"PO-1\", \"customer_details\": {}, \"order_items\": []}",
              "Sorry, I cannot read this document.", ""}
ApiOutcomes == {[raises |-> m] : m \in ApiErrors} \cup {[returns |-> r] : r \in Responses}
ApiRaises(api) == "raises" \in DOMAIN api

\* _call_gemini_api: the answer, or the exception it raises
CallGeminiApi(api) ==
    IF ApiRaises(api)
    THEN [raised |-> TRUE, message |-> "Gemini API call failed: " \o api.raises]
    ELSE [raised |-> FALSE, value |-> PyStr(api.returns)]

\* the exception _format_with_gemini_api catches, if any
StructuringFailure(gemini_api_key, api) ==
    IF ~gemini_api_key
    THEN [raised |-> TRUE, message |-> "GEMINI_API_KEY not configured"]
    ELSE CallGeminiApi(api)

\* _format_with_gemini_api without its "except Exception"
FormatWithGeminiApiUncaught(raw_text, gemini_api_key, api, now) ==
    StructuringFailure(gemini_api_key, api)

\* _format_with_gemini_api
FormatWithGeminiApi(raw_text, gemini_api_key, api, now) ==
    LET outcome == StructuringFailure(gemini_api_key, api)
    IN IF outcome.raised
       THEN [raised |-> FALSE,
             value |-> CreateFallbackStructure(raw_text, outcome.message, now)]
       ELSE outcome

\* What a call of DocumentParserTool._run works on: whether file_path
\* exists, the action, whether PaddleOCR reads the document, the text
\* str(prcs_result), whether GEMINI_API_KEY is set, and what the
\* text-generation call does.
Request(file_exists, action, ocr_ok, raw_text, gemini_api_key, api) ==
    [file_exists |-> file_exists, action |-> action, ocr_ok |-> ocr_ok,
     raw_text |-> raw_text, gemini_api_key |-> gemini_api_key, api |-> api]
NoRequest == Request(FALSE, "none", FALSE, <<>>, FALSE, [returns |-> ""])
Requests ==
    {Request(FALSE, "extract_po_data", TRUE, <<>>, TRUE, [returns |-> ""]),
     Request(TRUE, "summarize", TRUE, <<>>, TRUE, [returns |-> ""]),
     Request(TRUE, "extract_po_data", FALSE, <<>>, TRUE, [returns |-> ""])}
        \cup {Request(TRUE, "extract_po_data", TRUE, raw_text, gemini_api_key, api) :
                    raw_text \in Texts, gemini_api_key \in BOOLEAN, api \in ApiOutcomes}

\* what DocumentParserTool._run returns; raised tells whether an exception
\* left it, steps which of the OCR step and the structuring step it invoked
NotParsed ==
    [status |-> "none", raised |-> FALSE, message |-> "", extracted_data |-> None,
     steps |-> {}]
Parsed(status, message) ==
    [NotParsed EXCEPT !.status = status, !.message = message]

\* --------------------------------------------- the document generator
\* A value of an item field with its Python type; floats are written as
\* integers.
Value(type, v) == [type |-> type, v |-> v]
Absent == Value("absent", 0)
NumberValues ==
    {Value("int", 2), Value("int", 0), Value("int", -1), Value("float", 5),
     Value("str", 5), Value("NoneType", 0), Value("bool", 1)}
\* required_fields, in the order _validate_items_format looks at them
RequiredFields == <<"item_code", "description", "quantity", "unit_price">>
FieldNames == {RequiredFields[i] : i \in 1..Len(RequiredFields)}
\* the item of the tool description:
\* {"item_code": "ITM001", "description": "Widget A", "quantity": 2, "unit_price": 5.0}
GoodItem ==
    [item_code |-> Value("str", 1), description |-> Value("str", 2),
     quantity |-> Value("int", 2), unit_price |-> Value("float", 5)]
\* the dict holding the fields of c that are not Absent
Dict(c) == [f \in {g \in DOMAIN c : c[g] # Absent} |-> c[f]]
\* The items of the requests: the good item, the good item with one field
\* left out or one number replaced, items with two such changes on the
\* numbers, and the empty dict.
ItemCandidates ==
    {c \in [item_code : {GoodItem.item_code, Absent},
            description : {GoodItem.description, Absent},
            quantity : NumberValues \cup {Absent},
            unit_price : NumberValues \cup {Absent}] :
        \/ Cardinality({f \in FieldNames : c[f] # GoodItem[f]}) <= 1
        \/ /\ c.item_code = GoodItem.item_code
           /\ c.description = GoodItem.description
           /\ c.quantity \in {Absent, Value("int", 0), Value("bool", 1)}
           /\ c.unit_price \in {Absent, Value("str", 5), Value("bool", 1)}
        \/ \A f \in FieldNames : c[f] = Absent}
Items == {Dict(c) : c \in ItemCandidates}
ItemLists == UNION {[1..n -> Items] : n \in 0..MaxItems}
\* "" and two supplier / PO number strings
EmptyStr == <<>>
SupplierNames == {EmptyStr, <<"Acme">>}
GivenPoNumbers == {EmptyStr, <<"PO-2024-001">>}
GeneratorActions == {"create_pdf_po", "create_latex_po", "create_contract"}
\* f"PO-{datetime.now().strftime('%Y%m%d')}-{random.randint(1000, 9999)}"
Randoms == 1..NumRandoms
Today(now) == now \div (TicksPerSecond * SecondsPerDay)
GeneratedPoNumber(now, r) == <<"PO-", Today(now), r>>
\* what the file system and pdflatex do to _convert_latex_to_pdf
IoOutcomes == {"ok", "makedirs fails", "open fails", "pdflatex fails"}

\* isinstance(x, (int, float)); bool is a subclass of int
IsIntOrFloat(x) == x.type \in {"int", "float", "bool"}
NoError == [raised |-> FALSE, text |-> "", field |-> ""]
ValueError(text, field) == [raised |-> TRUE, text |-> text, field |-> field]
\* the first ValueError one item gives _validate_items_format (mutant: the
\* data types are not looked at)
ValidateItemFieldsOnly(item) ==
    LET missing == {i \in 1..Len(RequiredFields) : RequiredFields[i] \notin DOMAIN item}
    IN IF missing # {}
       THEN ValueError("Missing required field", RequiredFields[Min(missing)])
       ELSE NoError
ValidateItem(item) ==
    LET missing == {i \in 1..Len(RequiredFields) : RequiredFields[i] \notin DOMAIN item}
    IN IF missing # {}
       THEN ValueError("Missing required field", RequiredFields[Min(missing)])
       ELSE IF ~IsIntOrFloat(item["quantity"]) \/ item["quantity"].v <= 0
       THEN ValueError("Invalid quantity", "quantity")
       ELSE IF ~IsIntOrFloat(item["unit_price"]) \/ item["unit_price"].v <= 0
       THEN ValueError("Invalid unit_price", "unit_price")
       ELSE NoError
\* _validate_items_format: the error of the first item that has one
ValidateItemsFormat(items) ==
    LET bad == {i \in 1..Len(items) : ValidateItem(items[i]).raised}
    IN IF bad = {} THEN NoError ELSE ValidateItem(items[Min(bad)])
\* the checks of _run before it dispatches
ValidateInputs(supplier_name, items) ==
    IF supplier_name = EmptyStr THEN ValueError("Supplier name is required", "")
    ELSE IF items = <<>> THEN ValueError("Items list cannot be empty", "")
    ELSE ValidateItemsFormat(items)
\* sum(item.get('quantity', 0) * item.get('unit_price', 0) for item in items)
RECURSIVE TotalValue(_)
TotalValue(items) ==
    IF items = <<>> THEN 0
    ELSE Get(Head(items), "quantity", Value("int", 0)).v
            * Get(Head(items), "unit_price", Value("int", 0)).v
         + TotalValue(Tail(items))

\* the arguments of one call of DocumentGeneratorTool._run
GenInput(action, supplier_name, items, po_number) ==
    [action |-> action, supplier_name |-> supplier_name, items |-> items,
     po_number |-> po_number]
NoGenInput == GenInput("none", EmptyStr, <<>>, EmptyStr)
GenInputs ==
    {GenInput(action, supplier_name, items, po_number) :
        action \in GeneratorActions, supplier_name \in SupplierNames,
        items \in ItemLists, po_number \in GivenPoNumbers}
\* What a call returned and did: returns is "json" for a result object and
\* "latex" for the LaTeX text create_latex_po returns; rendered is the PO
\* number inside the LaTeX text; written are the files written (kind, name
\* prefix); pdflatex counts the runs of pdflatex.
NotGenerated ==
    [returns |-> "none", raised |-> FALSE, status |-> "none", message |-> NoError,
     po_number |-> EmptyStr, rendered |-> EmptyStr, written |-> {}, pdflatex |-> 0,
     items_count |-> 0, total_value |-> 0]
GenError(e) ==
    [NotGenerated EXCEPT !.returns = "json", !.status = "error", !.message = e]

\* ------------------------------------------------------------------- Init
\* Nothing has been called yet.
InitOthers ==
    /\ clock = 0
    /\ result = NoResult
    /\ adds = [id \in RequestIds |-> 0]
    /\ completions = [id \in RequestIds |-> 0]
    /\ crash = NoCrash
    /\ pc = [p \in Procs |-> "idle"]
    /\ local = [p \in Procs |-> NoLocal]
    /\ overlapped = FALSE
    /\ crashes = 0
    /\ collection = EmptyCollection
    /\ oids = 0
    /\ save = NoSave
    /\ storeResult = NoStoreResult
    /\ submitted = NotSubmitted
    /\ downstream = {}
    /\ parsed = NotParsed
    /\ generated = NotGenerated

\* __init__ found no queue file and wrote the empty queue.
InitQueue == InitOthers /\ file = InitialData(0)
\* No document is handed to the extraction pipeline and no request to the
\* document generator.
Init == InitQueue /\ parserInput = NoRequest /\ genInput = NoGenInput
\* A document is handed to the extraction pipeline.
InitParser == InitQueue /\ parserInput \in Requests /\ genInput = NoGenInput
\* A request is handed to the document generator.
InitGen == InitQueue /\ parserInput = NoRequest /\ genInput \in GenInputs
\* The tool is constructed on the default queue_file and then pointed at
\* another path, as load_purchase_queue does: the file it works on may not
\* exist.
InitFiles ==
    /\ InitOthers
    /\ file \in {InitialData(0), Missing}
    /\ parserInput = NoRequest
    /\ genInput = NoGenInput

\* Time passes between and inside invocations.
Tick ==
    /\ UNCHANGED <<storeVars, parserVars, genVars>>
    /\ clock < MaxClock
    /\ clock' = clock + 1
    /\ UNCHANGED <<file, result, adds, completions, crash, pc, local, overlapped, crashes>>

\* ----------------------------------------- one invocation at a time (Spec)
\* The reads of datetime.now() inside one invocation (request id, timestamp,
\* last_updated) fall on one tick of the clock.
\* _run("add_to_queue", request_data)
AddToQueue(request_data) ==
    /\ UNCHANGED <<storeVars, parserVars, genVars>>
    /\ UNCHANGED <<clock, completions, pc, local, overlapped, crashes>>
    /\ crash' = NoCrash
    /\ IF request_data = NoData
       THEN /\ result' = Result("add_to_queue", "error", NoId, 0, 0, <<>>, 0)
            /\ UNCHANGED <<file, adds>>
       ELSE /\ RecordsIn(file) < MaxRequests
            /\ TotalAdds < MaxRequests
            /\ LET queue_data == WithAdded(LoadQueue(file, clock), clock, request_data)
                   request_id == GenerateRequestId(clock)
               IN /\ file' = SaveQueue(queue_data, clock)
                  /\ adds' = [adds EXCEPT ![request_id] = @ + 1]
                  /\ result' = Result("add_to_queue", "success", request_id,
                                      Len(queue_data.pending_requests), 0, <<>>, 0)

\* _run("mark_completed", request_id)
MarkCompleted(request_id) ==
    /\ UNCHANGED <<storeVars, parserVars, genVars>>
    /\ UNCHANGED <<clock, adds, pc, local, overlapped, crashes>>
    /\ crash' = NoCrash
    /\ IF request_id = NoId
       THEN /\ result' = Result("mark_completed", "error", NoId, 0, 0, <<>>, 0)
            /\ UNCHANGED <<file, completions>>
       ELSE LET loaded == LoadQueue(file, clock)
                i == FirstIndex(loaded.pending_requests, request_id)
            IN IF i = 0
               THEN /\ file' = AfterNotFound(loaded, clock)
                    /\ result' = Result("mark_completed", "not_found", request_id,
                                        0, 0, <<>>, 0)
                    /\ UNCHANGED completions
               ELSE LET queue_data == WithCompleted(loaded, i, clock)
                    IN /\ TotalCompletions < MaxRequests
                       /\ file' = SaveQueue(queue_data, clock)
                       /\ completions' = [completions EXCEPT ![request_id] = @ + 1]
                       /\ result' = Result("mark_completed", "success", request_id,
                                           Len(queue_data.pending_requests), 0, <<>>, 0)

\* _run("get_pending")
GetPending ==
    /\ UNCHANGED <<storeVars, parserVars, genVars>>
    /\ UNCHANGED <<clock, adds, completions, pc, local, overlapped, crashes>>
    /\ crash' = NoCrash
    /\ LET queue_data == LoadQueue(file, clock)
           pending == queue_data.pending_requests
       IN /\ file' = queue_data
          /\ result' = Result("get_pending", "success", NoId,
                              Len(pending), 0, IdsOf(pending), 0)

\* _run("get_status")
GetStatus ==
    /\ UNCHANGED <<storeVars, parserVars, genVars>>
    /\ UNCHANGED <<clock, adds, completions, pc, local, overlapped, crashes>>
    /\ crash' = NoCrash
    /\ LET queue_data == LoadQueue(file, clock)
       IN /\ file' = queue_data
          /\ result' = Result("get_status", "success", NoId,
                              Len(queue_data.pending_requests),
                              Len(queue_data.completed_requests), <<>>,
                              queue_data.metadata.last_updated)

Next ==
    \/ Tick
    \/ \E request_data \in RequestData : AddToQueue(request_data)
    \/ \E request_id \in RequestIdArgs : MarkCompleted(request_id)
    \/ GetPending
    \/ GetStatus

Spec == Init /\ [][Next]_vars


\* ------------------------------------- invocations that crash (SpecCrash)
\* _save_queue writing completed_requests and pending_requests in two
\* separate writes: a kill between them leaves the new completed list next
\* to the old pending list
CrashOutcomesTwoWrites(before, loaded, saves) ==
    {before, loaded} \cup saves
        \cup {[s EXCEPT !.pending_requests = loaded.pending_requests] : s \in saves}
        \cup (IF before.kind # "json" \/ saves # {} THEN {Truncated} ELSE {})
        \cup {CutShort(s) : s \in saves}

\* What a cycle that dies before returning can leave on disk: the file as it
\* was, the file as _load_queue left it, the file as _save_queue would have
\* left it, or, when the cycle writes at all, a file cut short inside
\* json.dump (open(queue_file, 'w') truncates before the first byte goes out;
\* json.dump writes the lists first and the metadata block last).
CrashOutcomes(before, loaded, saves) ==
    {before, loaded} \cup saves
        \cup (IF before.kind # "json" \/ saves # {} THEN {Truncated} ELSE {})
        \cup {CutShort(s) : s \in saves}

\* _run("add_to_queue", request_data), killed before it returns
CrashAddToQueue(request_data) ==
    /\ UNCHANGED <<storeVars, parserVars, genVars>>
    /\ request_data # NoData
    /\ crashes < MaxCrashes
    /\ crashes' = crashes + 1
    /\ RecordsIn(file) < MaxCrashRequests
    /\ UNCHANGED <<clock, adds, completions, pc, local, overlapped>>
    /\ LET loaded == LoadQueue(file, clock)
           saved == SaveQueue(WithAdded(loaded, clock, request_data), clock)
       IN /\ file' \in CrashOutcomes(file, loaded, {saved})
          /\ crash' = [happened |-> TRUE, op |-> "add_to_queue",
                       before |-> loaded, after |-> saved]
          /\ result' = NoResult

\* _run("mark_completed", request_id), killed before it returns
CrashMarkCompleted(request_id) ==
    /\ UNCHANGED <<storeVars, parserVars, genVars>>
    /\ request_id # NoId
    /\ crashes < MaxCrashes
    /\ crashes' = crashes + 1
    /\ UNCHANGED <<clock, adds, completions, pc, local, overlapped>>
    /\ LET loaded == LoadQueue(file, clock)
           i == FirstIndex(loaded.pending_requests, request_id)
           saves == IF i = 0 THEN {}
                    ELSE {SaveQueue(WithCompleted(loaded, i, clock), clock)}
       IN /\ file' \in CrashOutcomes(file, loaded, saves)
          /\ crash' = [happened |-> TRUE, op |-> "mark_completed",
                       before |-> loaded,
                       after |-> IF i = 0 THEN loaded
                                 ELSE SaveQueue(WithCompleted(loaded, i, clock), clock)]
          /\ result' = NoResult

\* SpecCrash stops enqueueing at MaxCrashRequests.
CrashCap ==
    /\ RecordsIn(file') <= MaxCrashRequests
    /\ SumOver(adds', RequestIds) <= MaxCrashRequests

NextCrash ==
    \/ Tick
    \/ \E request_data \in RequestData : AddToQueue(request_data) /\ CrashCap
    \/ \E request_id \in RequestIdArgs : MarkCompleted(request_id)
    \/ GetPending
    \/ GetStatus
    \/ \E request_data \in RequestData : CrashAddToQueue(request_data)
    \/ \E request_id \in RequestIdArgs : CrashMarkCompleted(request_id)

SpecCrash == Init /\ [][NextCrash]_vars

\* The same invocations on a queue file that may not exist at first.
SpecFiles == InitFiles /\ [][NextCrash]_vars

\* -------------------------------------- interleaved invocations (SpecConc)
\* Invocation p runs one operation: "idle" before it, "loaded" between its
\* _load_queue and its _save_queue, "done" after its return.  The invocations
\* are alike, so they start in the order of their numbers.
OpenCycles == {p \in Procs : pc[p] = "loaded"}
Starts(p) == pc[p] = "idle" /\ \A q \in 1..(p - 1) : pc[q] # "idle"

\* _add_to_queue up to the call of _save_queue: load, build the record,
\* append it to the queue_data held in memory
ConcBeginAdd(p, request_data) ==
    /\ UNCHANGED <<storeVars, parserVars, genVars>>
    /\ Starts(p)
    /\ request_data # NoData
    /\ LET loaded == LoadQueue(file, clock)
       IN /\ file' = loaded
          /\ local' = [local EXCEPT ![p] =
                          [op |-> "add_to_queue",
                           request_id |-> GenerateRequestId(clock),
                           data |-> WithAdded(loaded, clock, request_data)]]
    /\ pc' = [pc EXCEPT ![p] = "loaded"]
    /\ overlapped' = (overlapped \/ OpenCycles # {})
    /\ UNCHANGED <<clock, result, adds, completions, crash, crashes>>

\* _mark_completed up to the call of _save_queue, or to its not-found return
ConcBeginMark(p, request_id) ==
    /\ UNCHANGED <<storeVars, parserVars, genVars>>
    /\ Starts(p)
    /\ request_id # NoId
    /\ UNCHANGED <<clock, adds, completions, crash, crashes>>
    /\ LET loaded == LoadQueue(file, clock)
           i == FirstIndex(loaded.pending_requests, request_id)
       IN /\ file' = loaded
          /\ IF i = 0
             THEN /\ result' = Result("mark_completed", "not_found", request_id,
                                      0, 0, <<>>, 0)
                  /\ pc' = [pc EXCEPT ![p] = "done"]
                  /\ UNCHANGED <<local, overlapped>>
             ELSE /\ local' = [local EXCEPT ![p] =
                                  [op |-> "mark_completed",
                                   request_id |-> request_id,
                                   data |-> WithCompleted(loaded, i, clock)]]
                  /\ pc' = [pc EXCEPT ![p] = "loaded"]
                  /\ overlapped' = (overlapped \/ OpenCycles # {})
                  /\ UNCHANGED result

\* _save_queue(queue_data) and the return that follows it
ConcPersist(p) ==
    /\ UNCHANGED <<storeVars, parserVars, genVars>>
    /\ pc[p] = "loaded"
    /\ file' = SaveQueue(local[p].data, clock)
    /\ result' = Result(local[p].op, "success", local[p].request_id,
                        Len(local[p].data.pending_requests), 0, <<>>, 0)
    /\ IF local[p].op = "add_to_queue"
       THEN /\ adds' = [adds EXCEPT ![local[p].request_id] = @ + 1]
            /\ UNCHANGED completions
       ELSE /\ completions' = [completions EXCEPT ![local[p].request_id] = @ + 1]
            /\ UNCHANGED adds
    /\ pc' = [pc EXCEPT ![p] = "done"]
    /\ local' = [local EXCEPT ![p] = NoLocal]
    /\ UNCHANGED <<clock, crash, overlapped, crashes>>

NextConc ==
    \/ Tick
    \/ \E p \in Procs, request_data \in RequestData : ConcBeginAdd(p, request_data)
    \/ \E p \in Procs, request_id \in RequestIdArgs : ConcBeginMark(p, request_id)
    \/ \E p \in Procs : ConcPersist(p)

SpecConc == Init /\ [][NextConc]_vars

\* ------------------------------------------------ the order store (SpecStore)
\* _run and _save_orders_to_mongodb without their "except Exception": the
\* exception leaves the tool
Uncaught(op, order_id, message) ==
    [StoreResult(op, "none", message, order_id, <<>>, <<>>, None) EXCEPT !.raised = TRUE]

\* What _run returns for a missing parameter and from its handler
\* "except Exception", and what _save_orders_to_mongodb returns from its outer
\* one: status error, nothing reported as saved.
ErrorResult(op, order_id, message) ==
    StoreResult(op, "error", message, order_id, <<>>, <<>>, None)

\* record_extracted_orders without extracted_data or with an empty
\* extracted_orders list, record_single_po without po_data
RecordInvalid(action) ==
    /\ save.pc = "idle"
    /\ storeResult' = ErrorResult(action, None, "parameter is required")
    /\ submitted' = NotSubmitted
    /\ UNCHANGED <<queueVars, parserVars, genVars, downstream, collection, oids, save>>

\* record_extracted_orders / record_single_po up to the loop of
\* _save_orders_to_mongodb; size is len(orders); again says that the caller
\* will submit the same payload once more when this call succeeds
RecordBegin(action, size, connected, again) ==
    /\ save.pc = "idle"
    /\ action = "record_single_po" => size = 1
    /\ submitted' = NotSubmitted
    /\ UNCHANGED <<queueVars, parserVars, genVars, downstream, collection, oids>>
    /\ IF connected
       THEN /\ save' = [NoSave EXCEPT !.pc = "saving", !.action = action,
                                     !.size = size, !.again = again]
            /\ storeResult' = NoStoreResult
       ELSE /\ storeResult' = ErrorResult(action, None, "connection failed")
            /\ UNCHANGED save

\* The caller submits the payload of the call that has just succeeded once
\* more.
RecordAgain ==
    /\ save.pc = "returned"
    /\ save' = [NoSave EXCEPT !.pc = "saving", !.action = save.action,
                              !.size = save.size, !.replay = TRUE]
    /\ submitted' = [submitted EXCEPT !.first = Stored(collection)]
    /\ storeResult' = NoStoreResult
    /\ UNCHANGED <<queueVars, parserVars, genVars, downstream, collection, oids>>

\* One pass of "for order in orders"; fails says whether replace_one raises.
SaveOrder(order, fails) ==
    /\ save.pc = "saving"
    /\ save.n < save.size
    /\ save.replay => order = submitted.batch[save.n + 1]
    /\ UNCHANGED <<queueVars, parserVars, genVars, downstream>>
    /\ IF ~IsDict(order)
       THEN \* order.get raises in _prepare_order_document and again in the
            \* handler that builds the errors entry; the outer handler returns
            /\ storeResult' = ErrorResult(save.action, None, "AttributeError")
            /\ save' = NoSave
            /\ submitted' = NotSubmitted
            /\ UNCHANGED <<collection, oids>>
       ELSE LET fresh == "order_id" \notin DOMAIN order
                document == PrepareOrderDocument(order, MetadataOf(save.action),
                                                 clock, oids + 1)
            IN /\ fresh => oids < MaxOids
               /\ oids' = IF fresh THEN oids + 1 ELSE oids
               /\ submitted' = [submitted EXCEPT !.batch =
                                    IF save.again THEN Append(@, order) ELSE @]
               /\ UNCHANGED storeResult
               /\ IF fails
                  THEN /\ save' = [save EXCEPT
                                    !.n = @ + 1,
                                    !.order = order,
                                    !.document = document,
                                    !.errors = Append(@,
                                        [order_id |-> Get(order, "order_id", <<"Unknown">>),
                                         error |-> "replace_one failed"])]
                       /\ UNCHANGED collection
                  ELSE /\ collection' = ReplaceOne(collection, document)
                       /\ Cardinality(DOMAIN collection') <= MaxStored
                       /\ save' = [save EXCEPT
                                    !.n = @ + 1,
                                    !.order = order,
                                    !.document = document,
                                    !.saved_orders = Append(@,
                                        [order_id |-> document["order_id"],
                                         action |-> IF Truthy(UpsertedId(collection, document))
                                                    THEN "inserted" ELSE "updated",
                                         document_id |-> document["_id"]])]

\* the return of _save_orders_to_mongodb after the loop
RecordFinish ==
    /\ save.pc = "saving"
    /\ save.n = save.size
    /\ storeResult' = StoreResult(save.action,
                                  IF save.errors = <<>> THEN "success"
                                  ELSE "partial_success",
                                  "", None, save.saved_orders, save.errors, None)
    /\ IF save.again /\ save.errors = <<>>
       THEN /\ save' = [NoSave EXCEPT !.pc = "returned", !.action = save.action,
                                     !.size = save.size]
            /\ UNCHANGED submitted
       ELSE /\ save' = NoSave
            /\ submitted' = NotSubmitted
    /\ UNCHANGED <<queueVars, parserVars, genVars, downstream, collection, oids>>

\* _run("get_order_status", order_id)
GetOrderStatus(order_id, connected) ==
    /\ save.pc = "idle"
    /\ submitted' = NotSubmitted
    /\ UNCHANGED <<queueVars, parserVars, genVars, downstream, collection, oids, save>>
    /\ IF order_id = None
       THEN storeResult' = ErrorResult("get_order_status", order_id,
                                       "parameter is required")
       ELSE IF ~connected
       THEN storeResult' = ErrorResult("get_order_status", order_id,
                                       "connection failed")
       ELSE IF Matching(collection, order_id) = {}
            THEN storeResult' = StoreResult("get_order_status", "not_found", "",
                                            order_id, <<>>, <<>>, None)
            ELSE \E order \in Matching(collection, order_id) :
                    storeResult' = StoreResult("get_order_status", "success", "",
                                               order_id, <<>>, <<>>, order)

NextStore ==
    \/ Tick
    \/ \E action \in Actions : RecordInvalid(action)
    \/ \E action \in Actions, size \in 1..MaxBatch, connected, again \in BOOLEAN :
            RecordBegin(action, size, connected, again)
    \/ RecordAgain
    \/ \E order \in OrderInputs, fails \in BOOLEAN : SaveOrder(order, fails)
    \/ RecordFinish
    \/ \E order_id \in OrderIdArgs, connected \in BOOLEAN :
            GetOrderStatus(order_id, connected)

SpecStore == Init /\ [][NextStore]_vars

\* --------------------------- the store and a downstream process (SpecDownstream)
\* A process downstream of the store moves the lifecycle tag of a stored
\* order on and notes a field of its own on the document.
DownstreamUpdate(k) ==
    /\ k \in DOMAIN collection
    /\ collection[k]["status"] = "pending"
    /\ LET stored == collection[k]
       IN collection' = [collection EXCEPT ![k] =
                            Merged(stored, [status |-> "shipped", shipment |-> 1])]
    /\ downstream' = downstream \cup {k}
    /\ UNCHANGED <<queueVars, parserVars, genVars, oids, save, storeResult, submitted>>

\* Writes that reach the store and succeed, one caller at a time, and the
\* downstream process between and inside them.
NextDownstream ==
    \/ \E action \in Actions, size \in 1..MaxBatch : RecordBegin(action, size, TRUE, FALSE)
    \/ \E order \in OrderDicts : SaveOrder(order, FALSE)
    \/ RecordFinish
    \/ \E k \in DOMAIN collection : DownstreamUpdate(k)

SpecDownstream == Init /\ [][NextDownstream]_vars

\* ------------------------------------ the extraction pipeline (SpecParser)
\* not os.path.exists(file_path) (mutant: the path is not looked at)
FileNotFoundNever(req) == FALSE
FileNotFound(req) == ~req.file_exists

\* _run(file_path, action) on parserInput
Extract ==
    /\ parserInput # NoRequest
    /\ UNCHANGED <<queueVars, storeVars, genVars, parserInput>>
    /\ IF FileNotFound(parserInput)
       THEN parsed' = Parsed("error", "File not found")
       ELSE IF parserInput.action # "extract_po_data"
       THEN parsed' = Parsed("error", "Unknown action")
       ELSE IF ~parserInput.ocr_ok
       THEN \* nothing catches what PaddleOCR raises
            parsed' = [Parsed("none", "OCR failed") EXCEPT
                            !.raised = TRUE, !.steps = {"ocr"}]
       ELSE LET structured_data ==
                    FormatWithGeminiApi(parserInput.raw_text, parserInput.gemini_api_key,
                                        parserInput.api, clock)
            IN IF structured_data.raised
               THEN parsed' = [Parsed("none", structured_data.message) EXCEPT
                                    !.raised = TRUE, !.steps = {"ocr", "structuring"}]
               ELSE parsed' = [Parsed("success", "") EXCEPT
                                    !.extracted_data = structured_data.value,
                                    !.steps = {"ocr", "structuring"}]

NextParser ==
    \/ Tick
    \/ Extract

SpecParser == InitParser /\ [][NextParser]_vars

\* ------------------------------------- the document generator (SpecGen)
\* _create_latex_purchase_order: the PO number the LaTeX text carries
LatexPoNumber(po_number, now, r) ==
    IF po_number = EmptyStr THEN GeneratedPoNumber(now, r) ELSE po_number

\* _create_pdf_purchase_order; rl and rp are what random.randint returns to
\* _create_latex_purchase_order and to _create_pdf_purchase_order
CreatePdfPurchaseOrder(io, rl, rp) ==
    LET rendered == LatexPoNumber(genInput.po_number, clock, rl)
        po_number == IF genInput.po_number = EmptyStr
                     THEN GeneratedPoNumber(clock, rp) ELSE genInput.po_number
    IN IF io = "makedirs fails"
       THEN \* the handler of _convert_latex_to_pdf returns pdf_filename
            \* before it is bound; _run catches the UnboundLocalError
            GenError(ValueError("cannot access local variable 'pdf_filename'", ""))
       ELSE [NotGenerated EXCEPT
                !.returns = "json", !.status = "success",
                !.po_number = po_number, !.rendered = rendered,
                !.written = CASE io = "ok" -> {<<".tex", po_number>>, <<".pdf", po_number>>}
                              [] io = "pdflatex fails" -> {<<".tex", po_number>>}
                              [] OTHER -> {},
                !.pdflatex = IF io \in {"ok", "pdflatex fails"} THEN 1 ELSE 0,
                !.items_count = Len(genInput.items),
                !.total_value = TotalValue(genInput.items)]

\* _run(action, supplier_name, items, ..., po_number) on genInput
Generate(io, rl, rp) ==
    /\ genInput # NoGenInput
    /\ UNCHANGED <<queueVars, storeVars, parserVars, genInput>>
    /\ LET e == ValidateInputs(genInput.supplier_name, genInput.items)
       IN IF e.raised
          THEN generated' = GenError(e)
          ELSE IF genInput.action = "create_pdf_po"
          THEN generated' = CreatePdfPurchaseOrder(io, rl, rp)
          ELSE IF genInput.action = "create_latex_po"
          THEN generated' = [NotGenerated EXCEPT
                                !.returns = "latex",
                                !.rendered = LatexPoNumber(genInput.po_number, clock, rl)]
          ELSE generated' = GenError(ValueError("Unknown action", ""))

NextGen ==
    \/ Tick
    \/ \E io \in IoOutcomes, rl \in Randoms, rp \in Randoms : Generate(io, rl, rp)

SpecGen == InitGen /\ [][NextGen]_vars

\* ======================================================================
\* Properties of the queue under one invocation at a time (Spec)
\* ======================================================================
Pending == file.pending_requests
Done == file.completed_requests
Issued == {id \in RequestIds : adds[id] > 0}
InPending(id) == \E i \in 1..Len(Pending) : Pending[i].request_id = id
InCompleted(id) == \E i \in 1..Len(Done) : Done[i].request_id = id

\* C1: every request_id that add_to_queue has returned is in exactly one of
\* pending_requests and completed_requests: never in both, never in neither.
C1_ExactlyOneList ==
    \A id \in Issued : InPending(id) # InCompleted(id)

\* C2: for every request_id, mark_completed succeeds at most once.
C2_CompletesAtMostOnce ==
    \A id \in RequestIds : completions[id] <= 1

\* C3: no two records of pending_requests + completed_requests share a
\* request_id.
C3_UniqueRequestIds ==
    LET all == IdsOf(Pending \o Done)
    IN \A i, j \in 1..Len(all) : i # j => all[i] # all[j]

StatusByList ==
    /\ \A i \in 1..Len(Pending) : Pending[i].status = "pending"
    /\ \A i \in 1..Len(Done) : Done[i].status = "completed"

\* pending_requests after a step: unchanged, one record appended at the end,
\* or one record removed with the others in their order
PendingKeepsOrder ==
    \/ Pending' = Pending
    \/ /\ Len(Pending') = Len(Pending) + 1
       /\ SubSeq(Pending', 1, Len(Pending)) = Pending
    \/ \E i \in 1..Len(Pending) :
          Pending' = SubSeq(Pending, 1, i - 1) \o SubSeq(Pending, i + 1, Len(Pending))

\* C5: records are created pending; every record of pending_requests has
\* status pending and every record of completed_requests status completed;
\* a completed record stays in completed_requests as it is, and the only
\* record that enters pending_requests is a newly created pending one.
C5_StatusLifecycle ==
    /\ []StatusByList
    /\ [][/\ Len(Done') >= Len(Done)
          /\ SubSeq(Done', 1, Len(Done)) = Done
          /\ PendingKeepsOrder
          /\ Len(Pending') = Len(Pending) + 1
                => /\ Pending'[Len(Pending')].status = "pending"
                   /\ Pending'[Len(Pending')] \notin Range(Done)]_vars

\* C5 witness: a request was enqueued after another one had been completed.
C5_Witness ==
    /\ result.op = "add_to_queue"
    /\ result.status = "success"
    /\ Len(Done) >= 1
    /\ Len(Pending) >= 1

\* C9: get_pending lists pending_requests in the order of the file, which is
\* the order of enqueueing: no step reorders the list, a new request goes to
\* the end, a completion removes one record and keeps the others in order.
C9_PendingInInsertionOrder ==
    /\ [](result.op = "get_pending" => result.listing = IdsOf(Pending))
    /\ [](\A i, j \in 1..Len(Pending) :
             i < j => Pending[i].timestamp <= Pending[j].timestamp)
    /\ [][PendingKeepsOrder]_vars

\* C9 witness: get_pending lists two requests enqueued at different times,
\* after a completion took a record out of the list.
C9_Witness ==
    /\ result.op = "get_pending"
    /\ Len(result.listing) = 2
    /\ Pending[1].timestamp < Pending[2].timestamp
    /\ Len(Done) >= 1

\* C10: after n successful add_to_queue and k successful mark_completed
\* calls the file holds n-k pending and k completed records, get_status
\* reports these counts, and add_to_queue / mark_completed report the pending
\* count after the operation.
C10_Counts ==
    /\ Len(Pending) = TotalAdds - TotalCompletions
    /\ Len(Done) = TotalCompletions
    /\ result.op = "get_status"
          => /\ result.pending_count = TotalAdds - TotalCompletions
             /\ result.completed_count = TotalCompletions
    /\ (result.op \in {"add_to_queue", "mark_completed"} /\ result.status = "success")
          => result.pending_count = Len(Pending)

\* C10 witness: get_status after two enqueues and one completion.
C10_Witness ==
    /\ result.op = "get_status"
    /\ TotalAdds = 2
    /\ TotalCompletions = 1
    /\ result.pending_count = 1
    /\ result.completed_count = 1

CompletionFields == {"completed_at", "processed_by"}

\* C11: a queue record carries completed_at and processed_by if and only if
\* it has been completed: every record in completed_requests has both fields,
\* no record in pending_requests has either.
C11_CompletionFieldsIffCompleted ==
    /\ \A i \in 1..Len(Done) : CompletionFields \subseteq DOMAIN Done[i]
    /\ \A i \in 1..Len(Pending) : CompletionFields \cap DOMAIN Pending[i] = {}

\* C11 witness: mark_completed has just moved a record while another one is
\* still pending.
C11_Witness ==
    /\ result.op = "mark_completed"
    /\ result.status = "success"
    /\ Len(Done) >= 1
    /\ Len(Pending) >= 1

\* ======================================================================
\* Properties of crashing invocations (SpecCrash)
\* ======================================================================
\* what the next _load_queue returns
NextLoaded == LoadQueue(file, clock)
Lists(f) == <<f.pending_requests, f.completed_requests>>

\* what identifies a request: the fields written at creation and never changed
Key(r) == <<r.request_id, r.timestamp, r.validation_data, r.created_by>>
Occurrences(k, f) ==
    Cardinality({i \in 1..Len(f.pending_requests) : Key(f.pending_requests[i]) = k})
      + Cardinality({i \in 1..Len(f.completed_requests) : Key(f.completed_requests[i]) = k})
KeysIn(f) == {Key(r) : r \in Range(f.pending_requests) \cup Range(f.completed_requests)}

\* C6: whatever point a mutating invocation is killed at, the queue that the
\* next _load_queue returns has no record in both pending_requests and
\* completed_requests, and holds no request more often than the queue the
\* invocation meant to leave: the kill duplicates nothing.
C6_NoRecordInBothLists ==
    /\ Range(NextLoaded.pending_requests) \cap Range(NextLoaded.completed_requests) = {}
    /\ crash.happened =>
          \A k \in KeysIn(NextLoaded) :
             Occurrences(k, NextLoaded) <= Occurrences(k, crash.after)

\* C6 witness: a mark_completed that had found its request was killed inside
\* the write of _save_queue.
C6_Witness ==
    /\ crash.happened
    /\ crash.op = "mark_completed"
    /\ Len(crash.after.completed_requests) > Len(crash.before.completed_requests)
    /\ file.kind = "truncated"

\* C7: after a mutating invocation was killed, the next _load_queue returns
\* the lists as they were before the invocation or as the invocation meant to
\* leave them.
C7_CrashAtomic ==
    crash.happened => Lists(NextLoaded) \in {Lists(crash.before), Lists(crash.after)}

\* a step of one of the read-only operations
ReadOnly == GetPending \/ GetStatus

\* What holds of them: a queue file that parses is left exactly as it is; a
\* file that is missing or does not parse is replaced by a fresh empty
\* queue, stamped with the time of the call, and the empty queue is reported.
ReadsRewriteOnlyUnreadableFile ==
    [][ReadOnly =>
          IF file.kind = "json"
          THEN file' = file
          ELSE /\ file' = InitialData(clock)
               /\ result'.pending_count = 0
               /\ result'.completed_count = 0]_vars

\* C27: get_pending and get_status never change the persisted queue:
\* whatever the queue file holds, a missing file and a file cut short by a
\* crashed write included, the pending and completed records on disk are
\* the same after the call as before.
C27_ReadsNeverChangeRecords ==
    [][ReadOnly => Lists(file') = Lists(file)]_vars

\* ======================================================================
\* Properties of interleaved invocations (SpecConc)
\* ======================================================================
Lost(id) == ~InPending(id) /\ ~InCompleted(id)

\* C8: as long as no load happened while another load-modify-persist cycle
\* was open (one writer at a time), every request_id that add_to_queue has
\* returned is in pending_requests or completed_requests.
C8_NoLostUpdateWhenSerialized ==
    ~overlapped => \A id \in Issued : ~Lost(id)

\* C8 witness: two cycles interleaved, every invocation has returned, and a
\* request_id that add_to_queue returned is in neither list.
C8_LostUpdate ==
    /\ overlapped
    /\ OpenCycles = {}
    /\ \E id \in Issued : Lost(id)

\* mark_completed(id) has reported success
ReportedCompleted(id) == completions[id] > 0

\* C28: even when queue invocations interleave, once mark_completed(id) has
\* reported success the request id stays in completed_requests and never
\* reappears in pending_requests, and two concurrent mark_completed(id)
\* calls do not both report success for one request.
C28_CompletedStaysCompleted ==
    \A id \in RequestIds :
        /\ ReportedCompleted(id) => (InCompleted(id) /\ ~InPending(id))
        /\ completions[id] <= adds[id]

\* ======================================================================
\* Properties of the order store (SpecStore)
\* ======================================================================
\* the documents stored with order_id x
StoredWith(x) == Matching(collection, x)
\* a pass of the loop of _save_orders_to_mongodb has just happened
Passed == save.pc = "saving" /\ save'.pc = "saving" /\ save'.n = save.n + 1
\* ... and it wrote its document
Wrote == Passed /\ Len(save'.saved_orders) = Len(save.saved_orders) + 1
HasOrderId(order) == "order_id" \in DOMAIN order /\ order["order_id"] # None

OnePerOrderId == \A x \in OrderIds : Cardinality(StoredWith(x)) <= 1
LastWriterWins ==
    Wrote /\ HasOrderId(save'.order) =>
        LET x == save'.order["order_id"]
        IN /\ Matching(collection', x) = {collection'[x]}
           /\ collection'[x]["order_id"] = x
           /\ collection'[x]["order_items"] = save'.order["order_items"]
           /\ \A k \in (DOMAIN collection) \ {x} :
                   k \in DOMAIN collection' /\ collection'[k] = collection[k]
           /\ DOMAIN collection' = (DOMAIN collection) \cup {x}

\* C12: the order store holds at most one record per order_id after any
\* sequence of record_extracted_orders / record_single_po calls, and writing
\* an order whose order_id is already stored replaces that record with the
\* incoming one (last writer wins) and touches no other record.
C12_OneRecordPerOrderId == []OnePerOrderId /\ [][LastWriterWins]_vars

\* C12 witness: one payload carried the same order_id twice with different
\* order_items; the store holds one record of that order_id, with the
\* order_items of the second.
C12_Witness ==
    /\ Len(submitted.batch) = 2
    /\ HasOrderId(submitted.batch[1])
    /\ HasOrderId(submitted.batch[2])
    /\ submitted.batch[1]["order_id"] = submitted.batch[2]["order_id"]
    /\ submitted.batch[1]["order_items"] # submitted.batch[2]["order_items"]
    /\ Len(save.saved_orders) = 2
    /\ save.saved_orders[2]["action"] = "updated"
    /\ Cardinality(StoredWith(submitted.batch[2]["order_id"])) = 1
    /\ \A d \in StoredWith(submitted.batch[2]["order_id"]) :
            d["order_items"] = submitted.batch[2]["order_items"]

\* C13: for every batch of orders, including batches with an order that has
\* no order_id key, submitting the identical batch twice leaves the same set
\* of stored records, with the same record count, as submitting it once.
C13_ResubmitIdempotent ==
    [][(save.replay /\ save.pc = "saving" /\ save'.pc = "idle"
            /\ storeResult'.status = "success")
        => /\ Stored(collection') = submitted.first
           /\ Cardinality(DOMAIN collection') = Cardinality(submitted.first)]_vars

\* C14: created_at is set when a record is first inserted and keeps that
\* value through every later write of the same order_id, while updated_at is
\* refreshed on every write.
C14_CreatedAtKept ==
    [][/\ \A k \in (DOMAIN collection) \cap (DOMAIN collection') :
              collection'[k]["created_at"] = collection[k]["created_at"]
       /\ Wrote => collection'[save'.document["_id"]]["updated_at"] = clock]_vars

\* C15: in a batch write a failure on one record (a malformed record, a
\* storage error on that write) is recorded in errors and does not abort the
\* batch: the loop goes on to the other records, and the call returns
\* partial_success.
C15_FailureDoesNotAbort ==
    [][/\ \A order \in OrderInputs, fails \in BOOLEAN :
              SaveOrder(order, fails) /\ (fails \/ ~IsDict(order))
                  => /\ Passed
                     /\ Len(save'.errors) = Len(save.errors) + 1
                     /\ save'.saved_orders = save.saved_orders
       /\ RecordFinish /\ save.errors # <<>>
              => storeResult'.status = "partial_success"]_vars

KeyedByOrderId ==
    \A k \in DOMAIN collection :
        /\ collection[k]["_id"] = k
        /\ k # None
        /\ collection[k]["order_id"] # None => k = collection[k]["order_id"]
        /\ collection[k]["order_id"] = None => k \in {ObjectId(n) : n \in 1..oids}
NoOrderIdNeverOverwritten ==
    \A k \in DOMAIN collection :
        collection[k]["order_id"] = None
            => k \in DOMAIN collection' /\ collection'[k] = collection[k]

\* C16: every record is keyed by its order_id when it has one and by a
\* synthesized non-null key when order_id is absent (key missing or value
\* null); orders without an order_id never overwrite each other.
C16_SynthesizedKeys == []KeyedByOrderId /\ [][NoOrderIdNeverOverwritten]_vars

\* C17: get_order_status raises nothing; when the store answers, an order_id
\* that is not stored yields not_found and a stored order_id yields success
\* with a record of that order_id.
C17_GetOrderStatus ==
    storeResult.op = "get_order_status" =>
        /\ ~storeResult.raised
        /\ storeResult.status \in {"success", "not_found", "error"}
        /\ storeResult.status = "error"
              <=> storeResult.order_id = None \/ storeResult.message = "connection failed"
        /\ storeResult.status = "not_found" <=>
              /\ storeResult.message = ""
              /\ StoredWith(storeResult.order_id) = {}
        /\ storeResult.status = "success" =>
              /\ storeResult.order \in StoredWith(storeResult.order_id)
              /\ storeResult.order["order_id"] = storeResult.order_id

\* C17 witness: the store holds an order and get_order_status was asked for
\* an order_id that is not stored.
C17_Witness ==
    /\ storeResult.op = "get_order_status"
    /\ storeResult.status = "not_found"
    /\ storeResult.order_id \in OrderIds
    /\ DOMAIN collection # {}

\* a pass of the loop that wrote reports what the write did to the key
OutcomeReported ==
    Wrote =>
        LET outcome == save'.saved_orders[Len(save'.saved_orders)]
        IN /\ outcome.document_id = save'.document["_id"]
           /\ outcome.action = IF save'.document["_id"] \in DOMAIN collection
                               THEN "updated" ELSE "inserted"
\* a batch write returns totals that add up to the batch
TotalsAddUp ==
    (save.pc = "saving" /\ storeResult' # storeResult) =>
        /\ storeResult'.total_saved = Len(storeResult'.saved_orders)
        /\ storeResult'.total_saved + Len(storeResult'.errors) = save.size

\* C24: the result of a batch write reports for each record written the
\* outcome inserted when no record with that key existed before that write
\* and updated otherwise; total_saved is the number of reported outcomes,
\* and total_saved plus the number of errors is the number of records of
\* the batch.
C24_BatchResult == [][OutcomeReported /\ TotalsAddUp]_vars

\* ======================================================================
\* Properties of the store next to a downstream process (SpecDownstream)
\* ======================================================================
\* C29: a write to the order store is a full replacement: right after a
\* record_extracted_orders / record_single_po write of an order the stored
\* record has status pending and holds only fields that come from the new
\* payload (and the timestamps and metadata of this write), whatever status
\* and fields the record stored before under that key had.
C29_WriteReplacesRecord ==
    [][Wrote =>
          LET order == save'.order
              stored == collection'[save'.document["_id"]]
          IN /\ stored["status"] = "pending"
             /\ DOMAIN stored \subseteq DocumentFields \cup {"extraction_metadata"}
             /\ stored["order_items"] = order["order_items"]
             /\ stored["order_id"] = Get(order, "order_id", None)
             /\ "extraction_metadata" \in DOMAIN stored
                    <=> save.action = "record_extracted_orders"
             /\ "extraction_metadata" \in DOMAIN stored
                    => stored["extraction_metadata"] = MetadataOf(save.action)]_vars

\* C29 witness: an order that a downstream process had marked shipped was
\* submitted again; the write was reported as an update and the stored
\* record is pending again, without the field of the downstream process.
C29_Witness ==
    /\ save.pc = "saving"
    /\ save.n >= 1
    /\ save.saved_orders # <<>>
    /\ save.saved_orders[Len(save.saved_orders)].action = "updated"
    /\ save.document["_id"] \in downstream
    /\ save.document["_id"] \in DOMAIN collection
    /\ collection[save.document["_id"]]["status"] = "pending"
    /\ "shipment" \notin DOMAIN collection[save.document["_id"]]

\* ======================================================================
\* Properties of the extraction pipeline (SpecParser)
\* ======================================================================
SchemaKeys ==
    {"order_id", "customer_details", "order_items", "order_totals",
     "delivery_requirements", "payment_terms"}
WellFormed(data) == SchemaKeys \subseteq DOMAIN data
IsFallback(data) ==
    /\ WellFormed(data)
    /\ "extraction_notes" \in DOMAIN data
    /\ data.extraction_notes.fallback_used = TRUE
\* the call reached the structuring step
Structured == parsed.status = "success" \/ (parsed.raised /\ parserInput.ocr_ok)
\* the structuring step of the call failed: no credential, or the
\* text-generation call raised
StructuringFailed == Structured /\ (~parserInput.gemini_api_key \/ ApiRaises(parserInput.api))
ErrorMessage ==
    IF ~parserInput.gemini_api_key THEN "GEMINI_API_KEY not configured"
    ELSE "Gemini API call failed: " \o parserInput.api.raises

\* C18: for every failure of the structuring step (missing credential, an
\* exception from the text-generation call) the pipeline does not raise: it
\* returns a result whose extracted_data is a Fallback Result with
\* extraction_notes.fallback_used = true and extraction_error equal to the
\* message of the error.
C18_StructuringFailureGivesFallback ==
    StructuringFailed =>
        /\ ~parsed.raised
        /\ parsed.status = "success"
        /\ IsFallback(parsed.extracted_data)
        /\ parsed.extracted_data.extraction_notes.extraction_error = ErrorMessage

\* C18 witness: the text-generation call raised "no credentials" on the
\* example text and the pipeline returned.
C18_Witness ==
    /\ StructuringFailed
    /\ parserInput.gemini_api_key
    /\ parserInput.api = [raises |-> "no credentials"]
    /\ parserInput.raw_text = ExampleText
    /\ parsed.extracted_data.extraction_notes.fallback_used

\* C19: extracted_data is always a well-formed structured object with the
\* schema keys, and when the structuring service answers with text that is
\* not JSON of the schema the pipeline returns a Fallback Result.
C19_AlwaysWellFormed ==
    parsed.status = "success" =>
        /\ WellFormed(parsed.extracted_data)
        /\ (parserInput.gemini_api_key /\ ~ApiRaises(parserInput.api)
                /\ parserInput.api.returns = "Sorry, I cannot read this document.")
              => IsFallback(parsed.extracted_data)

\* C20: the order_id of a Fallback Result is the identifier that follows a
\* PO / P.O. / Purchase Order marker in the raw text, or is synthesized from
\* the time when the text has no marker; for the raw text
\* "PO Number: PO-99-X raw garbled text..." it is "PO-99-X".
C20_FallbackOrderId ==
    (parsed.status = "success" /\ IsFallback(parsed.extracted_data)) =>
        /\ parserInput.raw_text = ExampleText
              => parsed.extracted_data.order_id = <<"P", "O", "-", "9", "9", "-", "X">>
        /\ (\A i \in 1..Len(parserInput.raw_text), a \in 1..Len(Markers) :
                ~MarkerAt(parserInput.raw_text, i, Markers[a]))
              => \E t \in Ticks : parsed.extracted_data.order_id = ExtractedId(t)

\* C21: no operation of the extraction pipeline or of the order record tool
\* lets an exception reach its caller: every failure, a failure of the OCR
\* call included, comes back as a result with an explicit status.
C21_NoExceptionReachesCaller ==
    /\ ~parsed.raised
    /\ parsed # NotParsed => parsed.status \in {"success", "error"}
    /\ ~storeResult.raised

\* C23: when the given file path does not exist the pipeline returns a
\* not-found error result (status error, message "File not found") and
\* invokes neither the OCR step nor the structuring step.
C23_FileNotFound ==
    (parsed # NotParsed /\ ~parserInput.file_exists) =>
        /\ ~parsed.raised
        /\ parsed.status = "error"
        /\ parsed.message = "File not found"
        /\ parsed.steps = {}

\* C23 witness: extract_po_data was asked for a path that does not exist
\* and returned the error.
C23_Witness ==
    /\ ~parserInput.file_exists
    /\ parserInput.action = "extract_po_data"
    /\ parsed.status = "error"
    /\ parsed.message = "File not found"

\* every field of the block is null
AllNull(block) == \A k \in DOMAIN block : block[k] = None

\* C25: in a Fallback Result every structured field other than order_id is
\* null: all fields of customer_details, order_totals (currency included),
\* delivery_requirements and payment_terms are null, and there is no order
\* item carrying a value.
C25_FallbackFieldsNull ==
    (parsed.status = "success" /\ IsFallback(parsed.extracted_data)) =>
        /\ AllNull(parsed.extracted_data.customer_details)
        /\ AllNull(parsed.extracted_data.order_totals)
        /\ AllNull(parsed.extracted_data.delivery_requirements)
        /\ AllNull(parsed.extracted_data.payment_terms)
        /\ parsed.extracted_data.order_items = <<>>

\* the preview of the Fallback Result the call returned
RawTextPreview == parsed.extracted_data.extraction_notes.raw_text_preview
Cut(raw_text) ==
    IF Len(raw_text) <= PreviewLen THEN raw_text ELSE SubSeq(raw_text, 1, PreviewLen)

\* C26: the raw_text_preview of a Fallback Result is the raw text when that
\* has at most 500 characters; otherwise it is the first 500 characters
\* followed by "...", so its length never exceeds 503.
C26_PreviewWithEllipsis ==
    (parsed.status = "success" /\ IsFallback(parsed.extracted_data)) =>
        /\ RawTextPreview =
              IF Len(parserInput.raw_text) <= PreviewLen THEN parserInput.raw_text
              ELSE Cut(parserInput.raw_text) \o <<".", ".", ".">>
        /\ Len(RawTextPreview) <= PreviewLen + 3

\* C26 witness: a Fallback Result for a text of more than 500 characters,
\* whose preview is longer than 500.
C26_Witness ==
    /\ parsed.status = "success"
    /\ IsFallback(parsed.extracted_data)
    /\ Len(parserInput.raw_text) > PreviewLen
    /\ Len(RawTextPreview) = PreviewLen + 3

\* C26 as stated: the preview is exactly the first 500 characters of a
\* longer text, and its length never exceeds 500.
C26_PreviewFirst500 ==
    (parsed.status = "success" /\ IsFallback(parsed.extracted_data)) =>
        /\ RawTextPreview = Cut(parserInput.raw_text)
        /\ Len(RawTextPreview) <= PreviewLen

\* ======================================================================
\* Properties of the document generator (SpecGen)
\* ======================================================================
\* a number of the request: an int or a float (True and False are the ints
\* 1 and 0 in Python)
IsNumber(x) == x.type \in {"int", "float", "bool"}
Lacks(item) == {f \in FieldNames : f \notin DOMAIN item}
BadNumber(item, f) == f \in DOMAIN item /\ (~IsNumber(item[f]) \/ item[f].v <= 0)
BadNumbers(item) == BadNumber(item, "quantity") \/ BadNumber(item, "unit_price")
Invalid(req) ==
    \/ req.supplier_name = EmptyStr
    \/ req.items = <<>>
    \/ \E i \in 1..Len(req.items) : Lacks(req.items[i]) # {} \/ BadNumbers(req.items[i])

\* C22: document generation validates before it writes: when supplier_name
\* is empty, the items list is empty, an item lacks item_code, description,
\* quantity or unit_price, or an item has a non-numeric or non-positive
\* quantity or unit_price, the operation returns status error, writes no
\* .tex or .pdf file and does not run pdflatex; an error about a missing
\* field names a field that is missing, and when missing fields are all
\* that is wrong with the request the error is about a missing field.
C22_ValidatesBeforeWriting ==
    generated # NotGenerated =>
        /\ Invalid(genInput) =>
              /\ ~generated.raised
              /\ generated.returns = "json"
              /\ generated.status = "error"
              /\ generated.written = {}
              /\ generated.pdflatex = 0
        /\ generated.message.text = "Missing required field" =>
              \E i \in 1..Len(genInput.items) : generated.message.field \in Lacks(genInput.items[i])
        /\ (/\ genInput.supplier_name # EmptyStr
            /\ \E i \in 1..Len(genInput.items) : Lacks(genInput.items[i]) # {}
            /\ \A i \in 1..Len(genInput.items) : ~BadNumbers(genInput.items[i]))
              => generated.message.text = "Missing required field"

\* C22 witness: create_pdf_po for a supplier with a good first item and a
\* second item without unit_price returned the error naming unit_price.
C22_Witness ==
    /\ genInput.action = "create_pdf_po"
    /\ genInput.supplier_name # EmptyStr
    /\ Len(genInput.items) = 2
    /\ genInput.items[1] = GoodItem
    /\ Lacks(genInput.items[2]) = {"unit_price"}
    /\ generated.status = "error"
    /\ generated.message = ValueError("Missing required field", "unit_price")
    /\ generated.written = {}

\* C30: for create_pdf_po with no po_number supplied the generated PO
\* number is chosen once: the po_number of the result, which names the
\* output files, is the PO number rendered inside the document.
C30_PoNumberChosenOnce ==
    (/\ genInput.action = "create_pdf_po"
     /\ genInput.po_number = EmptyStr
     /\ generated.status = "success") =>
        /\ generated.po_number # EmptyStr
        /\ generated.rendered = generated.po_number
        /\ \A w \in generated.written : w[2] = generated.po_number
====
